---- MODULE Spec2Model ----
(***************************************************************************)
(* chm2docset: the indexing pipeline of chm2docset.go.                     *)
(*                                                                         *)
(* Text is modelled as a sequence of symbols.  A symbol is one byte or     *)
(* character ("<", ">", "/", "=", "a", " ", ...), one keyword that the     *)
(* matchers treat as a unit ("title", "meta", "charset", a charset-name    *)
(* fragment such as "shift"), or one non-ASCII byte ("x82", "xCD", "xCF"). *)
(* Decoded non-ASCII characters are written "U+....".                      *)
(***************************************************************************)
EXTENDS Integers, Sequences, FiniteSets, TLC

VARIABLES
    goos,       \* runtime.GOOS of the build
    archive,    \* the files the external extractor produces from the source
    ioFail,     \* files whose os.Open / read fails
    decFail,    \* files whose transcoding reader reports an error
    pc,         \* position of run() / CreateDatabase()
    stages,     \* the stages of run() that returned nil, in order
    bundleDir,  \* DocsetPath() exists with Contents/Resources/Documents
    content,    \* files present under ContentPath()
    storeFile,  \* DatabasePath() exists
    schema,     \* the searchIndex table and its unique index exist
    storeRows,  \* committed rows of searchIndex: what another reader sees
    tx,         \* state of the *sql.Tx of this run
    txRows,     \* rows inserted in the open transaction, not yet committed
    todo,       \* entries WalkDir has not visited yet
    warnings,   \* files named in a "Warning: skipping file" log line
    plist,      \* Info.plist exists
    runs,       \* number of invocations started
    prevRows,   \* (name, type, path) rows of the last run that succeeded
    err,        \* the error run() returns ("" while it has none)
    input,      \* argument of the function under test (function specs)
    output      \* its result

envVars == <<goos, archive, ioFail, decFail>>
fsVars == <<bundleDir, content, storeFile, schema, storeRows, plist>>
dbVars == <<tx, txRows>>
walkVars == <<todo, warnings>>
runVars == <<stages, runs, prevRows, err>>
ioVars == <<input, output>>

vars == <<envVars, fsVars, dbVars, walkVars, runVars, ioVars, pc>>

----------------------------------------------------------------------------
(* Bounds and program constants *)

MaxElems == 3           \* elements per generated document
MaxFiles == 3           \* files per archive
MaxRuns == 2            \* invocations per behaviour
MaxStmts == 3           \* statements per transaction in the store specification

searchLimit == 4096
headerReadLimit == 65536

None == <<"<none>">>

\* prevRows before any run has succeeded
NoRun == {<<<<"<none>">>, "", <<>>>>}

----------------------------------------------------------------------------
(* Symbols *)

Min(S) == CHOOSE x \in S : \A y \in S : x <= y
Max(S) == CHOOSE x \in S : \A y \in S : y <= x

RECURSIVE Flatten(_)
Flatten(ss) == IF ss = <<>> THEN <<>> ELSE Head(ss) \o Flatten(Tail(ss))

\* strings.ToLower / the (?i) flag, on symbols
ToLower(c) ==
    CASE c = "TITLE" -> "title"
      [] c = "META" -> "meta"
      [] c = "CHARSET" -> "charset"
      [] c = "Shift" -> "shift"
      [] c = "JIS" -> "jis"
      [] c = "UTF-8" -> "utf-8"
      [] c = "Windows-1251" -> "windows-1251"
      [] c = ".HTM" -> ".htm"
      [] c = ".Html" -> ".html"
      [] OTHER -> c

\* number of bytes a symbol stands for
ByteLen(c) ==
    CASE c = "PAD4096" -> 4096
      [] c = "PAD61440" -> 61440
      [] ToLower(c) \in {"title", "shift"} -> 5
      [] ToLower(c) = "meta" -> 4
      [] ToLower(c) = "charset" -> 7
      [] ToLower(c) = "jis" -> 3
      [] ToLower(c) = "utf-8" -> 5
      [] ToLower(c) = "bogus" -> 5
      [] ToLower(c) = "windows-1251" -> 12
      [] c = "Welcome" -> 7
      [] c = "&nbsp;" -> 6
      [] c = "&amp;" -> 5
      [] OTHER -> 1

\* b[:n] and io.LimitReader(f, n): the bytes before offset n.  A symbol cut
\* by the limit leaves the fragment "CUT" (plain text bytes).
RECURSIVE Prefix(_, _)
Prefix(b, n) ==
    IF b = <<>> \/ n <= 0 THEN <<>>
    ELSE IF ByteLen(Head(b)) <= n
         THEN <<Head(b)>> \o Prefix(Tail(b), n - ByteLen(Head(b)))
         ELSE <<"CUT">>

IsSpace(c) == c \in {" ", "\t", "\n", "U+00A0"}
IsQuote(c) == c \in {"\"", "'"}

\* [a-zA-Z0-9-]
IsNameChar(c) ==
    c \in {"a", "b", "Welcome", "CUT", "PAD4096", "PAD61440", "bogus"}
    \/ ToLower(c) \in {"title", "meta", "charset", "shift", "jis", "utf-8",
                       "utf8", "windows-1251"}

\* least index k >= from with s[k] = c, 0 if none
IndexFrom(s, from, c) ==
    LET S == {k \in from..Len(s) : s[k] = c}
    IN IF S = {} THEN 0 ELSE Min(S)

\* least index k >= from that is not whitespace (Len(s)+1 if none)
SkipSpace(s, from) ==
    LET S == {k \in from..Len(s) : ~IsSpace(s[k])}
    IN IF S = {} THEN Len(s) + 1 ELSE Min(S)

At(s, k) == IF k \in 1..Len(s) THEN s[k] ELSE "<eof>"

\* of the candidate matches caps (one per start position, <<>> where the
\* pattern does not match), the leftmost / the rightmost
Leftmost(caps) ==
    LET I == {i \in DOMAIN caps : caps[i] # <<>>}
    IN IF I = {} THEN <<>> ELSE caps[Min(I)]
Rightmost(caps) ==
    LET I == {i \in DOMAIN caps : caps[i] # <<>>}
    IN IF I = {} THEN <<>> ELSE caps[Max(I)]

LowerSeq(s) == [k \in 1..Len(s) |-> ToLower(s[k])]

----------------------------------------------------------------------------
(* metaCharsetRE:                                                          *)
(*   (?i)<meta\s+[^>]*charset\s*=\s*["']?([a-zA-Z0-9-]+)["']?              *)

\* end (exclusive) of the maximal run of name characters starting at k
NameEnd(s, k) ==
    LET S == {e \in k..Len(s) + 1 :
                 /\ \A x \in k..e - 1 : IsNameChar(s[x])
                 /\ ~IsNameChar(At(s, e))}
    IN Min(S)

\* charset\s*=\s*["']?([a-zA-Z0-9-]+) matched with "charset" at j:
\* the captured name, or <<>> when it does not match there
CharsetAt(s, j) ==
    IF ToLower(At(s, j)) # "charset" THEN <<>>
    ELSE LET eq == SkipSpace(s, j + 1)
         IN IF At(s, eq) # "=" THEN <<>>
            ELSE LET v == SkipSpace(s, eq + 1)
                     n == IF IsQuote(At(s, v)) THEN v + 1 ELSE v
                 IN SubSeq(s, n, NameEnd(s, n) - 1)

\* the match starting at i: [^>]* is greedy, so the last "charset" of the
\* tag that matches is taken
MetaAt(s, i) ==
    IF ~(At(s, i) = "<" /\ ToLower(At(s, i + 1)) = "meta" /\ IsSpace(At(s, i + 2)))
    THEN <<>>
    ELSE LET gt == IndexFrom(s, i + 3, ">")
             lim == IF gt = 0 THEN Len(s) ELSE gt - 1
         IN Rightmost([j \in i + 3..lim |-> CharsetAt(s, j)])

\* metaCharsetRE.FindSubmatch(s)[1]: leftmost match; <<>> when len(match) < 2
metaCharsetRE(s) == Leftmost([i \in 1..Len(s) |-> MetaAt(s, i)])

----------------------------------------------------------------------------
(* getEncoding and the decoders of golang.org/x/text *)

\* ianaindex.MIME.Encoding(name), then ianaindex.IANA.Encoding(name);
\* "" stands for err != nil
getEncoding(name) ==
    CASE name = <<"shift", "_", "jis">> -> "Shift_JIS"
      [] name = <<"windows-1251">> -> "windows-1251"
      [] OTHER -> ""

\* Shift_JIS: 0x82 is a lead byte, 0xCD and 0xCF alone are half-width kana
RECURSIVE DecodeSJIS(_)
DecodeSJIS(b) ==
    IF b = <<>> THEN <<>>
    ELSE IF Head(b) = "x82"
    THEN IF At(b, 2) = "xCD" THEN <<"U+306F">> \o DecodeSJIS(SubSeq(b, 3, Len(b)))
         ELSE IF At(b, 2) = "xCF" THEN <<"U+3071">> \o DecodeSJIS(SubSeq(b, 3, Len(b)))
         ELSE <<"U+FFFD">> \o DecodeSJIS(Tail(b))
    ELSE IF Head(b) = "xCD" THEN <<"U+FF8D">> \o DecodeSJIS(Tail(b))
    ELSE IF Head(b) = "xCF" THEN <<"U+FF8F">> \o DecodeSJIS(Tail(b))
    ELSE <<Head(b)>> \o DecodeSJIS(Tail(b))

\* windows-1251: one byte, one character
Decode1251(b) ==
    [k \in 1..Len(b) |->
        CASE b[k] = "x82" -> "U+201A"
          [] b[k] = "xCD" -> "U+041D"
          [] b[k] = "xCF" -> "U+041F"
          [] OTHER -> b[k]]

\* enc.NewDecoder() applied to the whole buffer
Decode(enc, b) ==
    IF enc = "Shift_JIS" THEN DecodeSJIS(b)
    ELSE IF enc = "windows-1251" THEN Decode1251(b)
    ELSE b

\* decodeToUTF8 once the charset name is known (<<>>: len(match) < 2);
\* xerr: io.ReadAll of the transform reader returns an error
DecodeAs(b, xerr, charsetName) ==
    IF charsetName = <<>> THEN b
    ELSE IF charsetName = <<"utf-8">> \/ charsetName = <<"utf8">> THEN b
    ELSE IF getEncoding(charsetName) = "" THEN b
    ELSE IF xerr THEN b
    ELSE Decode(getEncoding(charsetName), b)

\* decodeToUTF8(b)
decodeToUTF8(b, xerr) ==
    DecodeAs(b, xerr, LowerSeq(metaCharsetRE(Prefix(b, searchLimit))))

----------------------------------------------------------------------------
(* titleRE: (?i)<title[^>]*>([^<]+)</title> *)

\* the capture group of the match starting at i, <<>> when none starts there
TitleAt(s, i) ==
    IF ~(At(s, i) = "<" /\ ToLower(At(s, i + 1)) = "title") THEN <<>>
    ELSE LET gt == IndexFrom(s, i + 2, ">")
         IN IF gt = 0 THEN <<>>
            ELSE LET lt == IndexFrom(s, gt + 1, "<")
                 IN IF lt = 0 \/ lt = gt + 1 THEN <<>>
                    ELSE IF /\ At(s, lt + 1) = "/"
                            /\ ToLower(At(s, lt + 2)) = "title"
                            /\ At(s, lt + 3) = ">"
                         THEN SubSeq(s, gt + 1, lt - 1)
                         ELSE <<>>

\* titleRE.FindStringSubmatch(s)[1]: leftmost match; <<>> when len(match) < 2
titleRELast(s) == Rightmost([i \in 1..Len(s) |-> TitleAt(s, i)])
titleRE(s) == Leftmost([i \in 1..Len(s) |-> TitleAt(s, i)])

\* html.UnescapeString
UnescapeString(s) ==
    [k \in 1..Len(s) |->
        CASE s[k] = "&amp;" -> "&"
          [] s[k] = "&nbsp;" -> "U+00A0"
          [] OTHER -> s[k]]

\* strings.Join(strings.Fields(s), " ")
RECURSIVE Fields(_, _)
Fields(s, pendingSpace) ==
    IF s = <<>> THEN <<>>
    ELSE IF IsSpace(Head(s)) THEN Fields(Tail(s), TRUE)
    ELSE (IF pendingSpace THEN <<" ">> ELSE <<>>) \o <<Head(s)>>
         \o Fields(Tail(s), FALSE)

NormalizeSpace(s) ==
    LET first == SkipSpace(s, 1)
    IN Fields(SubSeq(s, first, Len(s)), FALSE)

\* extractTitle(path) on a file with bytes doc.b; doc.ioerr: os.Open or the
\* read fails; doc.xerr: the transcoding reader fails
TitleOfMatch(match) ==
    IF match # <<>>
    THEN [title |-> NormalizeSpace(UnescapeString(match)), err |-> FALSE]
    ELSE [title |-> <<>>, err |-> FALSE]

extractTitle(doc) ==
    IF doc.ioerr THEN [title |-> <<>>, err |-> TRUE]
    ELSE TitleOfMatch(titleRE(decodeToUTF8(Prefix(doc.b, headerReadLimit), doc.xerr)))

----------------------------------------------------------------------------
(* Documents: a document is a sequence of at most MaxElems elements *)

OpenTag == <<"<", "title", ">">>
CloseTag == <<"<", "/", "title", ">">>
HiBytes == <<"x82", "xCD">>

ElemBytes(e) ==
    CASE e = "T1" -> OpenTag \o <<"Welcome">> \o CloseTag
      [] e = "T2" -> <<"<", "TITLE", " ", "a", "=", "b", ">", " ", "a", "\t", "\n",
                       "b", "&amp;", " ", "<", "/", "TITLE", ">">>
      [] e = "T3" -> OpenTag \o HiBytes \o CloseTag
      [] e = "TE" -> OpenTag \o CloseTag
      [] e = "TS" -> OpenTag \o <<" ", "&nbsp;">> \o CloseTag
      [] e = "TU" -> OpenTag \o <<"a">>
      [] e = "TN" -> OpenTag \o <<"a", "<", "b", ">", "b", "<", "/", "b", ">">> \o CloseTag
      [] e = "TO" -> <<"<", "title", " ">>
      [] e = "TAG" -> <<"<", "b", ">">>
      [] e = "MS" -> <<"<", "meta", " ", "charset", "=", "\"", "Shift", "_", "JIS", "\"", ">">>
      [] e = "MW" -> <<"<", "META", " ", "a", "=", "b", " ", "charset", " ", "=",
                       "Windows-1251", ">">>
      [] e = "MU" -> <<"<", "meta", " ", "charset", "=", "'", "UTF-8", "'", ">">>
      [] e = "MB" -> <<"<", "meta", " ", "charset", "=", "bogus", ">">>
      [] e = "PAD4K" -> <<"PAD4096">>
      [] e = "PAD60K" -> <<"PAD61440">>

Elems == {"T1", "T2", "T3", "TE", "TS", "TU", "TN", "TO", "TAG",
          "MS", "MW", "MU", "MB", "PAD4K", "PAD60K"}

ElemSeqs(n) == UNION {[1..k -> Elems] : k \in 0..n}

BytesOf(es) == Flatten([k \in 1..Len(es) |-> ElemBytes(es[k])])

\* the charset a document's bytes make decodeToUTF8 decode with ("" if none)
UsedEncoding(b) == getEncoding(LowerSeq(metaCharsetRE(Prefix(b, searchLimit))))

\* the documents of the function specification: a transcoding error needs a
\* decoder to run, and the bytes of a file that cannot be read do not matter
Docs ==
    {[b |-> BytesOf(es), xerr |-> x, ioerr |-> i] :
        es \in ElemSeqs(MaxElems), x \in BOOLEAN, i \in BOOLEAN}

DocOK(d) ==
    /\ d.xerr => UsedEncoding(d.b) # ""
    /\ d.ioerr => (d.b = <<>> /\ ~d.xerr)

----------------------------------------------------------------------------
(* Specification of extractTitle alone *)

Idle ==
    /\ goos = "linux" /\ archive = {} /\ ioFail = {} /\ decFail = {}
    /\ stages = <<>> /\ bundleDir = FALSE /\ content = {}
    /\ storeFile = FALSE /\ schema = FALSE /\ storeRows = {}
    /\ tx = "none" /\ txRows = {} /\ todo = {}
    /\ warnings = {} /\ plist = "absent" /\ runs = 0 /\ prevRows = NoRun
    /\ err = ""

InitTitle ==
    /\ Idle
    /\ pc = "call"
    /\ input \in {d \in Docs : DocOK(d)}
    /\ output = None

ExtractTitleCall ==
    /\ pc = "call"
    /\ output' = extractTitle(input)
    /\ pc' = "ret"
    /\ UNCHANGED <<envVars, fsVars, dbVars, walkVars, runVars, input>>

NextTitle == ExtractTitleCall

SpecTitle == InitTitle /\ [][NextTitle]_vars

----------------------------------------------------------------------------
(* The content tree: the files the extractor writes under ContentPath() *)

Files == {"welcome", "intro", "notes", "upper", "blank", "ru", "olddir"}

\* fs.DirEntry.IsDir
IsDir(e) == e \in {".", "Guide", "olddir"}

Parent(e) == IF e \in {"intro", "upper"} THEN "Guide" ELSE "."

\* os.PathSeparator
Separator == IF goos = "windows" THEN "\\" ELSE "/"

\* the name of an entry below the content root, as WalkDir joins it
RelName(e, sep) ==
    CASE e = "welcome" -> <<"Welcome", ".htm">>
      [] e = "intro" -> <<"Guide", sep, "intro", ".html">>
      [] e = "notes" -> <<"notes", ".txt">>
      [] e = "upper" -> <<"Guide", sep, "a", ".HTM">>
      [] e = "blank" -> <<"blank", ".Html">>
      [] e = "ru" -> <<"ru", ".htm">>
      [] e = "olddir" -> <<"old", ".html">>
      [] e = "Guide" -> <<"Guide">>
      [] OTHER -> <<>>

FileElems(f) ==
    CASE f = "welcome" -> <<"T1">>
      [] f = "intro" -> <<"MS", "T3">>
      [] f = "notes" -> <<"T1">>
      [] f = "upper" -> <<"TAG", "T1">>
      [] f = "blank" -> <<"TS">>
      [] f = "ru" -> <<"MW", "T3">>
      [] OTHER -> <<>>

DocOf(f) == [b |-> BytesOf(FileElems(f)), xerr |-> f \in decFail, ioerr |-> f \in ioFail]

\* opts.ContentPath()
basePath == <<"Documents">>

\* the path WalkDir hands to the callback
PathOf(e) == IF e = "." THEN basePath ELSE basePath \o <<Separator>> \o RelName(e, Separator)

\* filepath.Ext: from the last dot of the last element
Ext(path) ==
    LET D == {k \in 1..Len(path) :
                 /\ path[k] \in {".htm", ".html", ".HTM", ".Html", ".txt"}
                 /\ \A j \in k..Len(path) : path[j] # Separator}
    IN IF D = {} THEN <<>> ELSE SubSeq(path, Max(D), Len(path))

\* strings.EqualFold
EqualFold(x, y) == Len(x) = Len(y) /\ \A k \in 1..Len(x) : ToLower(x[k]) = ToLower(y[k])

\* the extension test of the walk callback
ExactExt(path) == Ext(path) = <<".htm">> \/ Ext(path) = <<".html">>
IsHTML(path) == EqualFold(Ext(path), <<".htm">>) \/ EqualFold(Ext(path), <<".html">>)

\* filepath.Rel(basePath, path) for a path below basePath
Rel(base, path) == SubSeq(path, Len(base) + 2, Len(path))

\* filepath.ToSlash
KeepSeparator(path) == path
ToSlash(path) == [k \in 1..Len(path) |-> IF path[k] = Separator THEN "/" ELSE path[k]]

\* the callback of filepath.WalkDir up to its INSERT; derr: WalkDir reports
\* an error for the entry
Skip == [kind |-> "skip", name |-> <<>>, path |-> <<>>]

\* the callback after extractTitle returned r
OnTitleStrict(e, r) ==
    IF r.err THEN [Skip EXCEPT !.kind = "abort"]
    ELSE IF r.title = <<>> THEN Skip
    ELSE [kind |-> "insert", name |-> r.title,
          path |-> ToSlash(Rel(basePath, PathOf(e)))]
OnTitle(e, r) ==
    IF r.err THEN [Skip EXCEPT !.kind = "warn"]
    ELSE IF r.title = <<>> THEN Skip
    ELSE [kind |-> "insert", name |-> r.title,
          path |-> ToSlash(Rel(basePath, PathOf(e)))]

walkFn(e, derr) ==
    IF derr THEN [Skip EXCEPT !.kind = "abort"]
    ELSE IF IsDir(e) THEN Skip
    ELSE IF ~IsHTML(PathOf(e)) THEN Skip
    ELSE OnTitle(e, extractTitle(DocOf(e)))

----------------------------------------------------------------------------
(* The index store: searchIndex(id INTEGER PRIMARY KEY, name, type, path)  *)
(* with CREATE UNIQUE INDEX anchor ON searchIndex (name, type, path)       *)

Triple(r) == <<r.name, r.type, r.path>>
Triples(rows) == {Triple(r) : r \in rows}

\* the unique index: does a row of rows collide with the triple t
ConflictsByName(rows, t) == \E r \in rows : r.name = t[1]
NoConflicts(rows, t) == FALSE
Conflicts(rows, t) == \E r \in rows : Triple(r) = t

\* the rowid SQLite assigns: one more than the largest in the table
NewId(rows) == IF rows = {} THEN 1 ELSE Max({r.id : r \in rows}) + 1

\* INSERT OR IGNORE INTO searchIndex(name, type, path) VALUES (t)
stmtExec(rows, t) ==
    IF Conflicts(rows, t) THEN rows
    ELSE rows \cup {[id |-> NewId(rows), name |-> t[1], type |-> t[2], path |-> t[3]]}

\* the statement run inside the transaction: db = [store, pending]
TxExecAutocommit(db, t) ==
    [store |-> stmtExec(db.store \cup db.pending, t) \ db.pending, pending |-> db.pending]
TxExec(db, t) ==
    [store |-> db.store, pending |-> stmtExec(db.store \cup db.pending, t) \ db.store]

\* tx.Commit()
TxCommit(db) == [store |-> db.store \cup db.pending, pending |-> {}]

\* tx.Rollback()
TxKeep(db) == [store |-> db.store \cup db.pending, pending |-> {}]
TxRollback(db) == [store |-> db.store, pending |-> {}]

Db == [store |-> storeRows, pending |-> txRows]

----------------------------------------------------------------------------
(* run(): the stages and their order *)

\* where run() goes when a stage returns nil
AfterSwapped(stage) ==
    CASE stage = "clean" -> "mkdir"
      [] stage = "mkdir" -> "dbremove"
      [] stage = "index" -> "lookpath"
      [] stage = "extract" -> "plist"
      [] stage = "plist" -> "done"
After(stage) ==
    CASE stage = "clean" -> "mkdir"
      [] stage = "mkdir" -> "lookpath"
      [] stage = "extract" -> "dbremove"
      [] stage = "index" -> "plist"
      [] stage = "plist" -> "done"

\* if err := stage(); err != nil { return ... }
OnReturnIgnoringErrors(stage, ok) == After(stage)
OnReturn(stage, ok) == IF ok THEN After(stage) ELSE "failed"

Return(stage, ok, why) ==
    /\ pc' = OnReturn(stage, ok)
    /\ stages' = IF ok THEN Append(stages, stage) ELSE stages
    /\ err' = IF ok THEN err ELSE why
    /\ UNCHANGED <<runs, prevRows>>

Init ==
    /\ goos \in {"linux", "windows"}
    /\ archive \in {a \in SUBSET Files : Cardinality(a) <= MaxFiles}
    /\ ioFail \in SUBSET {f \in archive : ~IsDir(f) /\ IsHTML(PathOf(f))}
    /\ decFail \in SUBSET {f \in archive \ ioFail :
                              ~IsDir(f) /\ UsedEncoding(BytesOf(FileElems(f))) # ""}
    /\ pc = "clean"
    /\ stages = <<>> /\ runs = 1 /\ prevRows = NoRun /\ err = ""
    /\ bundleDir = FALSE /\ content = {} /\ storeFile = FALSE /\ schema = FALSE
    /\ storeRows = {} /\ plist = "absent"
    /\ tx = "none" /\ txRows = {} /\ todo = {} /\ warnings = {}
    /\ input = None /\ output = None

\* opts.Clean(): os.RemoveAll(opts.DocsetPath())
Clean ==
    /\ pc = "clean"
    /\ bundleDir' = FALSE /\ content' = {} /\ storeFile' = FALSE /\ schema' = FALSE
    /\ storeRows' = {} /\ plist' = "absent"
    /\ Return("clean", TRUE, "")
    /\ UNCHANGED <<envVars, dbVars, walkVars, ioVars>>

CleanFail ==
    /\ pc = "clean"
    /\ Return("clean", FALSE, "cleaning output")
    /\ UNCHANGED <<envVars, fsVars, dbVars, walkVars, ioVars>>

\* opts.CreateDirectory(): os.MkdirAll(opts.ContentPath(), 0755)
CreateDirectory ==
    /\ pc = "mkdir"
    /\ bundleDir' = TRUE
    /\ Return("mkdir", TRUE, "")
    /\ UNCHANGED <<envVars, content, storeFile, schema, storeRows, plist, dbVars,
                   walkVars, ioVars>>

CreateDirectoryFail ==
    /\ pc = "mkdir"
    /\ Return("mkdir", FALSE, "creating directories")
    /\ UNCHANGED <<envVars, fsVars, dbVars, walkVars, ioVars>>

\* opts.ExtractSource(): exec.LookPath(bin)
LookPath ==
    /\ pc = "lookpath"
    /\ pc' = "extract"
    /\ UNCHANGED <<envVars, fsVars, dbVars, walkVars, runVars, ioVars>>

LookPathFail ==
    /\ pc = "lookpath"
    /\ Return("extract", FALSE, "extracting source: dependency missing")
    /\ UNCHANGED <<envVars, fsVars, dbVars, walkVars, ioVars>>

\* opts.ExtractSource(): cmd.Run()
ExtractSource ==
    /\ pc = "extract"
    /\ content' = archive
    /\ Return("extract", TRUE, "")
    /\ UNCHANGED <<envVars, bundleDir, storeFile, schema, storeRows, plist, dbVars,
                   walkVars, ioVars>>

\* a failing extractor leaves whatever it wrote so far
ExtractSourceFail ==
    /\ pc = "extract"
    /\ content' \in SUBSET archive
    /\ Return("extract", FALSE, "extracting source: command execution failed")
    /\ UNCHANGED <<envVars, bundleDir, storeFile, schema, storeRows, plist, dbVars,
                   walkVars, ioVars>>

----------------------------------------------------------------------------
(* opts.CreateDatabase() *)

\* os.Remove(opts.DatabasePath()), its error dropped
DbRemove ==
    /\ pc = "dbremove"
    /\ storeFile' = FALSE /\ schema' = FALSE /\ storeRows' = {}
    /\ pc' = "dbopen"
    /\ UNCHANGED <<envVars, bundleDir, content, plist, dbVars, walkVars, runVars, ioVars>>

\* sql.Open("sqlite", ...): no file is touched yet
DbOpen ==
    /\ pc = "dbopen"
    /\ pc' = "dbschema"
    /\ UNCHANGED <<envVars, fsVars, dbVars, walkVars, runVars, ioVars>>

DbOpenFail ==
    /\ pc = "dbopen"
    /\ Return("index", FALSE, "creating database: open db")
    /\ UNCHANGED <<envVars, fsVars, dbVars, walkVars, ioVars>>

\* db.Exec(dbSchema): creates the file, the table and the unique index,
\* outside any transaction
CreateSchema ==
    /\ pc = "dbschema"
    /\ storeFile' = TRUE /\ schema' = TRUE /\ storeRows' = {}
    /\ pc' = "dbbegin"
    /\ UNCHANGED <<envVars, bundleDir, content, plist, dbVars, walkVars, runVars, ioVars>>

CreateSchemaFail ==
    /\ pc = "dbschema"
    /\ storeFile' \in BOOLEAN /\ schema' = FALSE /\ storeRows' = {}
    /\ Return("index", FALSE, "creating database: create schema")
    /\ UNCHANGED <<envVars, bundleDir, content, plist, dbVars, walkVars, ioVars>>

\* db.Begin()
BeginTx ==
    /\ pc = "dbbegin"
    /\ tx' = "open" /\ txRows' = {}
    /\ pc' = "prepare"
    /\ UNCHANGED <<envVars, fsVars, walkVars, runVars, ioVars>>

BeginTxFail ==
    /\ pc = "dbbegin"
    /\ Return("index", FALSE, "creating database: begin tx")
    /\ UNCHANGED <<envVars, fsVars, dbVars, walkVars, ioVars>>

\* the entries filepath.WalkDir(basePath, ...) visits: the root, the files
\* and their directories
Entries(c) == {"."} \cup c \cup {Parent(f) : f \in c}

\* indexDocs: tx.Prepare(...), then the walk starts
Prepare ==
    /\ pc = "prepare"
    /\ todo' = Entries(content) /\ warnings' = {}
    /\ pc' = "walk"
    /\ UNCHANGED <<envVars, fsVars, dbVars, runVars, ioVars>>

PrepareFail ==
    /\ pc = "prepare"
    /\ pc' = "rollback" /\ err' = "creating database: indexing: prepare"
    /\ UNCHANGED <<envVars, fsVars, dbVars, walkVars, stages, runs, prevRows, ioVars>>

\* WalkDir visits a directory before the entries below it; the order among
\* siblings follows their names and is left open here
CanVisit(e) == pc = "walk" /\ e \in todo /\ (e = "." \/ Parent(e) \notin todo)

\* the callback returns nil without inserting
VisitSkip(e, w) ==
    /\ w.kind = "skip"
    /\ todo' = todo \ {e}
    /\ UNCHANGED <<envVars, fsVars, dbVars, warnings, runVars, ioVars, pc>>

\* extractTitle failed: log.Printf("Warning: skipping file ..."), return nil
VisitWarn(e, w) ==
    /\ w.kind = "warn"
    /\ todo' = todo \ {e}
    /\ warnings' = warnings \cup {e}
    /\ UNCHANGED <<envVars, fsVars, dbVars, runVars, ioVars, pc>>

\* stmt.Exec(title, "Guide", relPath) succeeds
VisitInsert(e, w) ==
    /\ w.kind = "insert"
    /\ storeRows' = TxExec(Db, <<w.name, "Guide", w.path>>).store
    /\ txRows' = TxExec(Db, <<w.name, "Guide", w.path>>).pending
    /\ todo' = todo \ {e}
    /\ UNCHANGED <<envVars, bundleDir, content, storeFile, schema, plist, tx,
                   warnings, runVars, ioVars, pc>>

\* stmt.Exec fails: the callback returns the error and WalkDir stops
VisitInsertFail(e, w) ==
    /\ w.kind = "insert"
    /\ todo' = todo \ {e}
    /\ pc' = "rollback" /\ err' = "creating database: indexing: insert"
    /\ UNCHANGED <<envVars, fsVars, dbVars, warnings, stages, runs, prevRows, ioVars>>

\* the callback returned its err argument: WalkDir stops
VisitAbort(e, w) ==
    /\ w.kind = "abort"
    /\ todo' = todo \ {e}
    /\ pc' = "rollback" /\ err' = "creating database: indexing: walk"
    /\ UNCHANGED <<envVars, fsVars, dbVars, warnings, stages, runs, prevRows, ioVars>>

\* WalkDir calls the callback for an entry e it can visit next; it passes
\* an error only for a directory it cannot read
WalkSkip == \E e \in todo : CanVisit(e) /\ VisitSkip(e, walkFn(e, FALSE))
WalkWarn == \E e \in todo : CanVisit(e) /\ VisitWarn(e, walkFn(e, FALSE))
WalkInsert == \E e \in todo : CanVisit(e) /\ VisitInsert(e, walkFn(e, FALSE))
WalkInsertFail == \E e \in todo : CanVisit(e) /\ VisitInsertFail(e, walkFn(e, FALSE))
WalkAbort ==
    \E e \in todo : \E derr \in {FALSE} \cup {IsDir(e)} :
        CanVisit(e) /\ VisitAbort(e, walkFn(e, derr))

\* WalkDir returns nil, indexDocs returns nil
IndexDocsReturn ==
    /\ pc = "walk" /\ todo = {}
    /\ pc' = "commit"
    /\ UNCHANGED <<envVars, fsVars, dbVars, walkVars, runVars, ioVars>>

\* return tx.Commit()
Commit ==
    /\ pc = "commit"
    /\ storeRows' = TxCommit(Db).store /\ txRows' = TxCommit(Db).pending
    /\ tx' = "committed"
    /\ Return("index", TRUE, "")
    /\ UNCHANGED <<envVars, bundleDir, content, storeFile, schema, plist, walkVars, ioVars>>

\* tx.Commit() fails; the deferred tx.Rollback() discards the transaction
CommitFail ==
    /\ pc = "commit"
    /\ storeRows' = TxRollback(Db).store /\ txRows' = TxRollback(Db).pending
    /\ tx' = "rolledback"
    /\ Return("index", FALSE, "creating database: commit")
    /\ UNCHANGED <<envVars, bundleDir, content, storeFile, schema, plist, walkVars, ioVars>>

\* indexDocs returned an error: the deferred tx.Rollback() and db.Close()
\* run, then CreateDatabase returns "indexing: ..."
Rollback ==
    /\ pc = "rollback"
    /\ storeRows' = TxRollback(Db).store /\ txRows' = TxRollback(Db).pending
    /\ tx' = "rolledback"
    /\ Return("index", FALSE, err)
    /\ UNCHANGED <<envVars, bundleDir, content, storeFile, schema, plist, walkVars, ioVars>>

\* opts.WritePlist()
WritePlist ==
    /\ pc = "plist"
    /\ plist' = "written"
    /\ Return("plist", TRUE, "")
    /\ UNCHANGED <<envVars, bundleDir, content, storeFile, schema, storeRows, dbVars,
                   walkVars, ioVars>>

\* os.WriteFile fails: no file, or a truncated one
WritePlistFail ==
    /\ pc = "plist"
    /\ plist' \in {"absent", "partial"}
    /\ Return("plist", FALSE, "writing plist")
    /\ UNCHANGED <<envVars, bundleDir, content, storeFile, schema, storeRows, dbVars,
                   walkVars, ioVars>>

\* the program is invoked again on the same source and destination
Restart ==
    /\ pc \in {"done", "failed"}
    /\ runs < MaxRuns
    /\ runs' = runs + 1
    /\ prevRows' = IF pc = "done" THEN Triples(storeRows) ELSE prevRows
    /\ pc' = "clean" /\ stages' = <<>> /\ err' = ""
    /\ tx' = "none" /\ txRows' = {} /\ todo' = {} /\ warnings' = {}
    /\ UNCHANGED <<envVars, fsVars, ioVars>>

Next ==
    \/ Clean \/ CleanFail
    \/ CreateDirectory \/ CreateDirectoryFail
    \/ LookPath \/ LookPathFail
    \/ ExtractSource \/ ExtractSourceFail
    \/ DbRemove
    \/ DbOpen \/ DbOpenFail
    \/ CreateSchema \/ CreateSchemaFail
    \/ BeginTx \/ BeginTxFail
    \/ Prepare \/ PrepareFail
    \/ WalkSkip \/ WalkWarn \/ WalkInsert \/ WalkInsertFail \/ WalkAbort
    \/ IndexDocsReturn
    \/ Commit \/ CommitFail
    \/ Rollback
    \/ WritePlist \/ WritePlistFail
    \/ Restart

Spec == Init /\ [][Next]_vars

----------------------------------------------------------------------------
(* Specification of the index store alone: one transaction of arbitrary    *)
(* INSERT OR IGNORE statements against a fresh schema.  input is the       *)
(* triple of the last statement, output the number of statements run.      *)

StoreTriples ==
    {<<n, "Guide", p>> : n \in {<<"Welcome">>, <<"a">>},
                          p \in {<<"Welcome", ".htm">>, <<"a", ".htm">>}}

InitStore ==
    /\ Idle
    /\ pc = "dbschema"
    /\ input = None
    /\ output = 0

StorePrepare ==
    /\ pc = "prepare"
    /\ pc' = "walk"
    /\ UNCHANGED <<envVars, fsVars, dbVars, walkVars, runVars, ioVars>>

StoreExec ==
    /\ pc = "walk"
    /\ output < MaxStmts
    /\ \E t \in StoreTriples :
          /\ storeRows' = TxExec(Db, t).store
          /\ txRows' = TxExec(Db, t).pending
          /\ input' = t
    /\ output' = output + 1
    /\ UNCHANGED <<envVars, bundleDir, content, storeFile, schema, plist, tx,
                   walkVars, runVars, pc>>

StoreExecFail ==
    /\ pc = "walk"
    /\ output < MaxStmts
    /\ pc' = "rollback" /\ err' = "creating database: indexing: insert"
    /\ UNCHANGED <<envVars, fsVars, dbVars, walkVars, stages, runs, prevRows, ioVars>>

NextStore ==
    \/ CreateSchema \/ BeginTx \/ StorePrepare
    \/ StoreExec \/ StoreExecFail
    \/ IndexDocsReturn
    \/ Commit \/ CommitFail
    \/ Rollback

SpecStore == InitStore /\ [][NextStore]_vars

----------------------------------------------------------------------------
(* Vocabulary of the properties *)

\* regular files whose extension is .htm or .html in any case
HtmlFiles == {"welcome", "intro", "upper", "blank", "ru"}

\* the path of a file relative to the content root, with forward slashes
SlashPath(f) == RelName(f, "/")

TitleOfFile(f) == extractTitle(DocOf(f)).title

\* the title of a file taken from its bytes as they are, undecoded
RawTitleOfFile(f) ==
    TitleOfMatch(titleRE(Prefix(BytesOf(FileElems(f)), headerReadLimit))).title

Eligible == {f \in archive \cap HtmlFiles : f \notin ioFail /\ TitleOfFile(f) # <<>>}

ExpectedRows == {<<TitleOfFile(f), "Guide", SlashPath(f)>> : f \in Eligible}

DbErrors ==
    {"creating database: open db", "creating database: create schema",
     "creating database: begin tx", "creating database: indexing: prepare",
     "creating database: indexing: insert", "creating database: indexing: walk",
     "creating database: commit"}

DbPcs == {"dbremove", "dbopen", "dbschema", "dbbegin", "prepare", "walk",
          "rollback", "commit"}

\* the run is inside CreateDatabase, or CreateDatabase has just returned
InCreateDatabase ==
    \/ pc \in DbPcs
    \/ pc = "plist"
    \/ pc = "failed" /\ err \in DbErrors

RunOrder == <<"clean", "mkdir", "extract", "index", "plist">>

----------------------------------------------------------------------------
(* C1 *)

\* C1 as stated: during CreateDatabase another reader sees no store at all
\* before the commit and a fully populated store after it.
C1_NoStoreBeforeCommit ==
    InCreateDatabase =>
        IF tx = "committed"
        THEN storeFile /\ Triples(storeRows) = ExpectedRows
        ELSE ~storeFile

\* C1 amended: during CreateDatabase another reader sees no store or a store
\* without rows before the commit, and all rows of the run after it; a
\* store holding only some of the rows is never visible.
C1_NoRowsBeforeCommit ==
    InCreateDatabase =>
        IF tx = "committed"
        THEN storeFile /\ Triples(storeRows) = ExpectedRows
        ELSE storeRows = {}

C1_Witness ==
    /\ pc = "walk" /\ tx = "open" /\ todo # {}
    /\ txRows # {} /\ storeFile /\ storeRows = {}

----------------------------------------------------------------------------
(* C2 *)

\* C2: when an insertion fails, the walk stops, the transaction is rolled
\* back before CreateDatabase returns, and no row of the run is visible.
C2_RollbackOnInsertFailure ==
    [][err' = "creating database: indexing: insert" =>
          /\ pc' \in {"rollback", "failed"}
          /\ err = err' => todo' = todo
          /\ storeRows' = {}
          /\ pc' = "failed" => (tx' = "rolledback" /\ txRows' = {} /\ plist' = "absent")]_vars

C2_Witness ==
    /\ pc = "failed" /\ err = "creating database: indexing: insert"
    /\ tx = "rolledback" /\ storeRows = {}
    /\ Cardinality({f \in archive \ todo : walkFn(f, FALSE).kind = "insert"}) >= 2

----------------------------------------------------------------------------
(* C3 *)

NoRowFor(f) == \A r \in storeRows : r.path # SlashPath(f)

\* C3 as stated: every document whose read or decoding failed is warned
\* about and left out of the index.
C3_DecodeFailureSkipped ==
    pc = "done" =>
        \A f \in archive \cap HtmlFiles :
            (f \in ioFail \/ f \in decFail) => (f \in warnings /\ NoRowFor(f))

\* C3 amended: a document that cannot be read is warned about and skipped;
\* a document whose transcoding fails gets no warning and is indexed with
\* the title of its undecoded bytes; either way the walk goes on, every
\* other eligible document gets its row and the transaction commits.
C3_SkipUnreadableOnly ==
    /\ [](pc = "done" =>
            /\ tx = "committed"
            /\ warnings = archive \cap HtmlFiles \cap ioFail
            /\ \A f \in archive \cap HtmlFiles \cap ioFail : NoRowFor(f)
            /\ \A f \in (archive \cap HtmlFiles) \ ioFail :
                  /\ TitleOfFile(f) # <<>> =>
                        <<TitleOfFile(f), "Guide", SlashPath(f)>> \in Triples(storeRows)
                  /\ f \in decFail => TitleOfFile(f) = RawTitleOfFile(f))
    /\ [][(pc = "walk" /\ (todo \ todo') \cap ioFail # {}) =>
             /\ pc' = "walk"
             /\ warnings' = warnings \cup (todo \ todo')
             /\ txRows' = txRows]_vars

C3_Witness ==
    /\ pc = "done"
    /\ ioFail # {} /\ decFail # {}
    /\ \E f \in decFail : ~NoRowFor(f)

----------------------------------------------------------------------------
(* C4 *)

\* C4: the stages run in the order clean, mkdir, extract, index, plist, each
\* only after the one before returned nil; without a successful extraction
\* the store is never opened and nothing is scanned; the descriptor is
\* written only after the commit.
C4_StageOrder ==
    /\ stages = SubSeq(RunOrder, 1, Len(stages))
    /\ pc = "clean" => stages = <<>>
    /\ pc = "mkdir" => Len(stages) = 1
    /\ pc \in {"lookpath", "extract"} => Len(stages) = 2
    /\ pc \in DbPcs => Len(stages) = 3
    /\ pc = "plist" => Len(stages) = 4
    /\ pc = "done" => Len(stages) = 5
    /\ Len(stages) < 3 =>
          /\ tx = "none" /\ txRows = {} /\ todo = {} /\ warnings = {}
          /\ Len(stages) >= 1 => (~storeFile /\ storeRows = {})
    /\ (Len(stages) >= 1 /\ plist # "absent") => (tx = "committed" /\ Len(stages) >= 4)

C4_Witness ==
    /\ pc = "done" /\ stages = RunOrder
    /\ plist = "written" /\ tx = "committed" /\ storeRows # {}

----------------------------------------------------------------------------
(* C5 *)

BundleComplete ==
    /\ bundleDir /\ content = archive /\ storeFile
    /\ Triples(storeRows) = ExpectedRows /\ plist = "written"

BundleAbsent == ~bundleDir /\ content = {} /\ ~storeFile /\ plist = "absent"

\* C5 as stated: after a fatal failure nothing partial is left at the
\* bundle location.
C5_NoPartialBundle == pc = "failed" => (BundleAbsent \/ BundleComplete)

\* C5 amended: a fatal failure ends the run at once (after the rollback of
\* the open transaction, no later stage runs) and leaves no partial index:
\* the store holds no rows, or all rows when only the descriptor failed (or
\* a previous bundle could not be removed); the directories, extracted
\* files and the store file made so far stay at the bundle location.
C5_AbortNoPartialIndex ==
    /\ err # "" => pc \in {"rollback", "failed"}
    /\ pc = "failed" =>
          /\ tx # "open" /\ txRows = {}
          /\ Len(stages) < 5
          /\ storeRows = {} \/ Triples(storeRows) = ExpectedRows
          /\ (storeRows # {} /\ stages # <<>>) => err = "writing plist"
          /\ (plist = "written") => stages = <<>>

C5_Witness ==
    /\ pc = "failed" /\ err = "creating database: commit"
    /\ bundleDir /\ content # {} /\ storeFile /\ storeRows = {}
    /\ Eligible # {}

----------------------------------------------------------------------------
(* C6 *)

\* C6: after a successful run the rows are exactly (title, "Guide", path
\* with forward slashes) of the readable .htm/.html files (any case) with a
\* non-empty title; directories, other files and untitled documents give
\* no row.
C6_RowsExactlyEligible ==
    pc = "done" =>
        /\ Triples(storeRows) = ExpectedRows
        /\ Cardinality(storeRows) = Cardinality(Eligible)

C6_Witness ==
    /\ pc = "done" /\ goos = "windows"
    /\ {"notes", "blank", "upper"} \subseteq archive
    /\ storeRows # {}

----------------------------------------------------------------------------
(* C7 *)

Visible == storeRows \cup txRows

\* C7: no two rows of the store share (name, type, path); a statement whose
\* triple is already present changes no row and is no error.
C7_UniqueTriples ==
    /\ [](\A r1, r2 \in Visible : Triple(r1) = Triple(r2) => r1 = r2)
    /\ [][(pc = "walk" /\ output' = output + 1 /\ input' \in Triples(Visible)) =>
             /\ storeRows' \cup txRows' = Visible
             /\ pc' = "walk" /\ err' = ""]_vars

C7_Witness ==
    /\ tx = "committed" /\ storeRows # {}
    /\ output > Cardinality(storeRows)

----------------------------------------------------------------------------
(* C8 *)

\* C8: the rows of a successful run on an unchanged tree equal those of the
\* previous successful run, whatever the order of the two walks.
C8_SameRowsEveryRun ==
    (pc = "done" /\ prevRows # NoRun) => Triples(storeRows) = prevRows

C8_Witness ==
    /\ pc = "done" /\ runs = 2 /\ prevRows # NoRun
    /\ Cardinality(prevRows) >= 2
    /\ \E r1, r2 \in storeRows : r1.name = r2.name /\ r1.path # r2.path

----------------------------------------------------------------------------
(* C9 *)

\* the text titleRE is applied to
Header == decodeToUTF8(Prefix(input.b, headerReadLimit), input.xerr)

IsTitleStart(s, i) == At(s, i) = "<" /\ ToLower(At(s, i + 1)) = "title"

\* <title ...> starts at i and ends at g, and its text runs up to the
\* </title> at l
WellFormed(s, i, g, l) ==
    /\ IsTitleStart(s, i)
    /\ s[g] = ">" /\ \A k \in i + 2..g - 1 : s[k] # ">"
    /\ l > g + 1 /\ \A k \in g + 1..l - 1 : s[k] # "<"
    /\ s[l] = "<" /\ At(s, l + 1) = "/" /\ ToLower(At(s, l + 2)) = "title"
    /\ At(s, l + 3) = ">"

\* the ends g of the start tag opened at i, and the "<" that end a text
\* beginning after g
TagEnds(s, i) ==
    {g \in i + 2..Len(s) : s[g] = ">" /\ \A k \in i + 2..g - 1 : s[k] # ">"}
TextEnds(s, g) ==
    {l \in g + 2..Len(s) : s[l] = "<" /\ \A k \in g + 1..l - 1 : s[k] # "<"}

WellFormedSet(s) ==
    UNION {UNION {{<<i, g, l>> : l \in {x \in TextEnds(s, g) : WellFormed(s, i, g, x)}} :
                     g \in TagEnds(s, i)} :
              i \in {x \in 1..Len(s) : IsTitleStart(s, x)}}

TitleText(s, w) == NormalizeSpace(UnescapeString(SubSeq(s, w[2] + 1, w[3] - 1)))

TitleStarts(s) == {i \in 1..Len(s) : IsTitleStart(s, i)}

\* C9 as stated: the first title element decides; when it is malformed,
\* unterminated or empty the document has no title.
C9_FirstElementDecides ==
    (pc = "ret" /\ ~input.ioerr) =>
        /\ ~output.err
        /\ LET s == Header
               first == Min(TitleStarts(s))
               W == {w \in WellFormedSet(s) : w[1] = first}
           IN IF TitleStarts(s) = {} \/ W = {}
              THEN output.title = <<>>
              ELSE \E w \in W : output.title = TitleText(s, w)

\* C9 amended: the title is the text of the first well-formed element
\* <title ...>text</title> (text not empty and free of "<"); malformed,
\* unterminated or empty title elements before it are passed over; only a
\* header without any well-formed title element has no title.
C9_FirstWellFormedDecides ==
    (pc = "ret" /\ ~input.ioerr) =>
        /\ ~output.err
        /\ LET s == Header
               W == WellFormedSet(s)
           IN IF W = {}
              THEN output.title = <<>>
              ELSE \E w \in W : /\ \A v \in W : w[1] <= v[1]
                                /\ output.title = TitleText(s, w)

C9_Witness ==
    /\ pc = "ret" /\ ~input.ioerr
    /\ output.title # <<>>
    /\ Cardinality(TitleStarts(Header)) >= 2
    /\ \A w \in WellFormedSet(Header) : w[1] # Min(TitleStarts(Header))

----------------------------------------------------------------------------
(* C10 *)

IsDelimiter(c) == IsSpace(c) \/ IsQuote(c) \/ c \in {">", "/", "<eof>"}

\* the whole value of the charset attribute found at j
DeclaredAt(s, j) ==
    IF ToLower(At(s, j)) # "charset" THEN <<>>
    ELSE LET eq == SkipSpace(s, j + 1)
         IN IF At(s, eq) # "=" THEN <<>>
            ELSE LET v == SkipSpace(s, eq + 1)
                     n == IF IsQuote(At(s, v)) THEN v + 1 ELSE v
                     e == Min({k \in n..Len(s) + 1 : IsDelimiter(At(s, k))})
                 IN SubSeq(s, n, e - 1)

DeclaredInTag(s, i) ==
    IF ~(At(s, i) = "<" /\ ToLower(At(s, i + 1)) = "meta" /\ IsSpace(At(s, i + 2)))
    THEN <<>>
    ELSE LET gt == IndexFrom(s, i + 3, ">")
             lim == IF gt = 0 THEN Len(s) ELSE gt - 1
         IN Rightmost([j \in i + 3..lim |-> DeclaredAt(s, j)])

\* the charset the first meta tag of s declares
Declared(s) == Leftmost([i \in 1..Len(s) |-> DeclaredInTag(s, i)])

\* C10: a document declaring a resolvable non-UTF-8 charset in a meta tag
\* within its first 4096 bytes gets the title of its text decoded with that
\* charset.
C10_DeclaredCharsetDecoded ==
    (pc = "ret" /\ ~input.ioerr /\ ~input.xerr) =>
        LET b == Prefix(input.b, headerReadLimit)
            enc == getEncoding(LowerSeq(Declared(Prefix(b, searchLimit))))
        IN enc # "" => output.title = TitleOfMatch(titleRE(Decode(enc, b))).title

====
